---- MODULE Spec2Model ----
(***************************************************************************)
(* A model of rprofiler: producer threads create and drop block guards,    *)
(* which send BeginBlock / EndBlock events over an unbounded channel; one  *)
(* consumer at a time runs Profiler::process_events, which drains the      *)
(* channel into the statistics tree of a ProfilerData; the report builder  *)
(* turns the tree into percentage rows.                                    *)
(*                                                                         *)
(* Time is a discrete clock `now`; Instant::now() reads it and elapsed()   *)
(* is a difference of two readings (so a duration may be 0).               *)
(***************************************************************************)
EXTENDS Integers, Sequences, FiniteSets, TLC

\* ---------------------------------------------------------------- bounds
MaxTime == 1
MaxGuards == 1
MaxCalls == 2
MaxResets == 1
\* events in a sequence handed to the aggregator directly, lifecycle events aside
MaxScript == 6
MaxLate == 1
\* segments of a qualified block name
MaxParts == 4
\* events in a stream that is split into batches
MaxBatched == 5

\* ThreadId values as read by thread_id_to_usize: the main thread and a worker
Threads == {1, 2}
\* the thread that owns the session and calls process_events (the main thread)
MainThread == 1

\* Block names are '::'-separated paths, kept as their segments.
NameA == <<"a">>
\* the names the instrumented program gives its blocks
Names == {NameA}
\* the names of the blocks in event sequences handed to the aggregator directly
NameOuter == <<"outer">>
NameInner == <<"inner">>
\* what profile_block!() inside Profiler::process_events evaluates to
PEName == <<"rprofiler", "profiler", "Profiler", "process_events">>
MainName == <<"rengine", "run">>
EmptyName == <<"">>

\* BTreeMap<&'static str, _> iterates in key order: "a" < "inner" < "outer" < "rprofiler::..."
NameRank(name) ==
    CASE name = NameA -> 1
      [] name = NameInner -> 2
      [] name = NameOuter -> 3
      [] OTHER -> 4

\* one clock tick, in nanoseconds (Duration keeps nanoseconds)
TickNanos == 1000000

VARIABLES
    now,              \* the last reading of the monotonic clock
    main_start_time,  \* Profiler.main_start_time
    main_state,       \* "init" | "begun" | "ended": begin_main / end_main called
    queue,            \* the flume channel: events sent and not yet received
    guards,           \* guards[t]: live ProfilerBlockGuards created by thread t, oldest first
    calls,            \* process_events calls made
    created,          \* guards created by the instrumented program
    resets,           \* reset_stats calls made
    data,             \* the ProfilerData session
    report,           \* result of save_to_file
    log,              \* what the events received so far say, read without the tree
    fresh,            \* a session constructed when ResetStats was last received, fed the events since
    call,             \* the last process_events call: session and log before it, events it applied
    sent_since,       \* the program sent an event since the last process_events call returned
    strict            \* every guard so far was dropped by its creator, innermost first

vars == <<now, main_start_time, main_state, queue, guards, calls, created, resets,
          data, report, log, fresh, call, sent_since, strict>>

\* ---------------------------------------------------------------- events
\* `late` is not part of ProfilerEvent: it marks the events sent after the report was
\* written, so that they can be told from the others where they are applied
BeginMain ==
    [type |-> "BeginMain", thread_id |-> 0, name |-> EmptyName, time |-> 0, late |-> FALSE]
EndMain(time) ==
    [type |-> "EndMain", thread_id |-> 0, name |-> EmptyName, time |-> time, late |-> FALSE]
BeginBlock(thread_id, name) ==
    [type |-> "BeginBlock", thread_id |-> thread_id, name |-> name, time |-> 0,
     late |-> FALSE]
EndBlock(thread_id, time) ==
    [type |-> "EndBlock", thread_id |-> thread_id, name |-> EmptyName, time |-> time,
     late |-> FALSE]
ResetStats ==
    [type |-> "ResetStats", thread_id |-> 0, name |-> EmptyName, time |-> 0, late |-> FALSE]

Late(ev) == [ev EXCEPT !.late = TRUE]

\* ---------------------------------------------------------------- the tree
\* Nodes live in an arena; handles are arena indices.  Node 1 is main_block.
\* parent = 0: the root, or a node no longer in any children map.
Root == 1
None == 0

\* measure_count: u32 is held in two parts, its low 31 bits (measure_count) and
\* its top bit (measure_count_bit31): the value is measure_count_bit31 * 2^31 + measure_count
LowMax == 2147483647

BlockStat_new(name, parent) ==
    [name |-> name, total_time |-> 0, measure_count |-> 0, measure_count_bit31 |-> 0,
     parent |-> parent]

ProfilerData_new ==
    [nodes |-> <<BlockStat_new(EmptyName, 0)>>,
     blocks_stack |-> <<>>,
     panicked |-> FALSE,
     overflow_checks |-> FALSE]

\* children.get(name) of node p
ChildNamed(d, p, name) ==
    {i \in 1..Len(d.nodes) : d.nodes[i].parent = p /\ d.nodes[i].name = name}

Children(d, p) == {i \in 1..Len(d.nodes) : d.nodes[i].parent = p}

\* blocks_stack is a Vec indexed by the thread id value: slot v is blocks_stack[v + 1]
StackOf(d, thread_id) ==
    IF thread_id + 1 <= Len(d.blocks_stack) THEN d.blocks_stack[thread_id + 1] ELSE <<>>

\* a.first() instead of a.last(): the thread's outermost open block
outermost_block_on_thread(d, thread_id) ==
    LET s == StackOf(d, thread_id)
    IN IF Len(s) = 0 THEN None ELSE s[1]

current_block_on_thread(d, thread_id) ==
    LET s == StackOf(d, thread_id)
    IN IF Len(s) = 0 THEN None ELSE s[Len(s)]

\* the stacks replaced by n new empty ones instead of being extended
ResizedAnew(stacks, n) ==
    IF Len(stacks) < n THEN [i \in 1..n |-> <<>>] ELSE stacks

Resized(stacks, n) ==
    IF Len(stacks) < n
    THEN stacks \o [i \in 1..(n - Len(stacks)) |-> <<>>]
    ELSE stacks

push_block_to_thread_stack(d, thread_id, block) ==
    LET stacks == Resized(d.blocks_stack, thread_id + 1)
    IN [d EXCEPT !.blocks_stack = [stacks EXCEPT ![thread_id + 1] = Append(@, block)]]

\* one stack for all threads: pops the frame opened last by whichever thread
pop_block_from_any_stack(d, thread_id) ==
    LET open == {v \in 1..Len(d.blocks_stack) : Len(d.blocks_stack[v]) > 0}
    IN IF open = {}
       THEN [block |-> None, data |-> d]
       ELSE LET v == CHOOSE x \in open : \A y \in open : y <= x
                s == d.blocks_stack[v]
            IN [block |-> s[Len(s)],
                data |-> [d EXCEPT !.blocks_stack[v] = SubSeq(s, 1, Len(s) - 1)]]

\* the popped handle (None when the slot is missing or empty) and the session after the pop
pop_block_from_thread_stack(d, thread_id) ==
    LET s == StackOf(d, thread_id)
    IN IF Len(s) = 0
       THEN [block |-> None, data |-> d]
       ELSE [block |-> s[Len(s)],
             data |-> [d EXCEPT !.blocks_stack[thread_id + 1] = SubSeq(s, 1, Len(s) - 1)]]

\* children.insert(name, BlockStat { .. }) without the lookup
EntryAlwaysInsert(d, p, name) ==
    [block |-> Len(d.nodes) + 1,
     data |-> [d EXCEPT !.nodes = Append(@, BlockStat_new(name, p))]]

\* children.entry(name).or_insert_with(|| BlockStat { name, 0, 0, {} }) under node p
EntryOrInsert(d, p, name) ==
    LET found == ChildNamed(d, p, name)
    IN IF found # {}
       THEN [block |-> CHOOSE i \in found : TRUE, data |-> d]
       ELSE [block |-> Len(d.nodes) + 1,
             data |-> [d EXCEPT !.nodes = Append(@, BlockStat_new(name, p))]]

ApplyBeginMain(d) == [d EXCEPT !.nodes[Root].name = MainName]

\* EndMain that forgets the time
ApplyEndMainCountOnly(d, time) ==
    [d EXCEPT !.nodes[Root].measure_count = 1, !.nodes[Root].measure_count_bit31 = 0]

ApplyEndMain(d, time) ==
    [d EXCEPT !.nodes[Root].total_time = time, !.nodes[Root].measure_count = 1,
              !.nodes[Root].measure_count_bit31 = 0]

\* the u32 is at u32::MAX
AtMax(n) == n.measure_count = LowMax /\ n.measure_count_bit31 = 1

\* measure_count += 1, as the build without overflow checks computes it: u32::MAX + 1 is 0
Incremented(n) ==
    IF n.measure_count < LowMax THEN [n EXCEPT !.measure_count = @ + 1]
    ELSE [n EXCEPT !.measure_count = 0, !.measure_count_bit31 = 1 - @]

\* BeginBlock that always looks the name up under main_block
ApplyBeginBlockUnderRoot(d, thread_id, name) ==
    LET e == EntryOrInsert(d, Root, name)
    IN push_block_to_thread_stack(e.data, thread_id, e.block)

ApplyBeginBlock(d, thread_id, name) ==
    LET top == current_block_on_thread(d, thread_id)
        e == EntryOrInsert(d, IF top = None THEN Root ELSE top, name)
    IN push_block_to_thread_stack(e.data, thread_id, e.block)

\* pop().unwrap_or(main_block): an EndBlock without a frame is charged to the root
ApplyEndBlockChargesRoot(d, thread_id, time) ==
    LET p == pop_block_from_thread_stack(d, thread_id)
        b == IF p.block = None THEN Root ELSE p.block
    IN IF p.data.overflow_checks /\ AtMax(p.data.nodes[b])
       THEN [p.data EXCEPT !.nodes[b].total_time = @ + time, !.panicked = TRUE]
       ELSE [p.data EXCEPT !.nodes[b] = Incremented([@ EXCEPT !.total_time = @ + time])]

\* blocks_stack[thread_id_value].pop().unwrap(): a missing slot or an empty stack panics;
\* total_time += time; measure_count += 1: at u32::MAX the increment panics in a build
\* with overflow checks and wraps to 0 in a build without them
ApplyEndBlock(d, thread_id, time) ==
    LET p == pop_block_from_thread_stack(d, thread_id)
    IN IF p.block = None
       THEN [d EXCEPT !.panicked = TRUE]
       ELSE IF p.data.overflow_checks /\ AtMax(p.data.nodes[p.block])
       THEN [p.data EXCEPT !.nodes[p.block].total_time = @ + time, !.panicked = TRUE]
       ELSE [p.data EXCEPT !.nodes[p.block] = Incremented([@ EXCEPT !.total_time = @ + time])]

\* ResetStats: clear all children of root, reset root's counters to zero
ApplyResetStats(d) ==
    [d EXCEPT !.nodes = [i \in 1..Len(d.nodes) |->
        IF i = Root THEN [d.nodes[i] EXCEPT !.total_time = 0, !.measure_count = 0,
                                            !.measure_count_bit31 = 0]
        ELSE IF d.nodes[i].parent = Root THEN [d.nodes[i] EXCEPT !.parent = 0]
        ELSE d.nodes[i]]]

\* one iteration of the loop over events_receiver.try_iter()
Apply(d, ev) ==
    IF d.panicked THEN d
    ELSE CASE ev.type = "BeginMain" -> ApplyBeginMain(d)
           [] ev.type = "EndMain" -> ApplyEndMain(d, ev.time)
           [] ev.type = "BeginBlock" -> ApplyBeginBlock(d, ev.thread_id, ev.name)
           [] ev.type = "EndBlock" -> ApplyEndBlock(d, ev.thread_id, ev.time)
           [] ev.type = "ResetStats" -> ApplyResetStats(d)
           [] OTHER -> d

\* ---------------------------------------------------------------- the report
RECURSIVE InTree(_, _)
\* node i hangs under main_block through children maps
InTree(d, i) ==
    IF i = Root THEN TRUE
    ELSE IF d.nodes[i].parent = 0 THEN FALSE
    ELSE InTree(d, d.nodes[i].parent)

TreeNodes(d) == {i \in 1..Len(d.nodes) : InTree(d, i)}

RECURSIVE Depth(_, _)
Depth(d, i) == IF d.nodes[i].parent = 0 THEN 0 ELSE 1 + Depth(d, d.nodes[i].parent)

RECURSIVE PathOf(_, _)
\* names of the blocks enclosing node i, outermost first, node i's own name last
PathOf(d, i) ==
    IF d.nodes[i].parent = 0 THEN <<>>
    ELSE Append(PathOf(d, d.nodes[i].parent), d.nodes[i].name)

\* to_lowercase().replace("_", "") of one name segment
Simplified(part) ==
    CASE part = "Profiler" -> "profiler"
      [] part = "process_events" -> "processevents"
      [] part = "A" -> "a"
      [] part = "a_" -> "a"
      [] OTHER -> part

RECURSIVE CleanParts(_)
\* the while-let loop over name.split("::") in build_report_recurse
CleanParts(parts) ==
    IF parts = <<>> THEN <<>>
    ELSE IF Len(parts) >= 2 /\ Simplified(parts[1]) = Simplified(parts[2])
         THEN <<parts[2]>> \o CleanParts(SubSeq(parts, 3, Len(parts)))
         ELSE <<parts[1]>> \o CleanParts(Tail(parts))

\* f32 results: a finite value in 1/10000 percent, or one of the two specials
NaN == -1
Infinity == 1000000000

\* (a.as_secs_f32() / b.as_secs_f32()) * 100.0
Percents(a, b) ==
    IF b = 0 THEN (IF a = 0 THEN NaN ELSE Infinity)
    ELSE (a * 1000000) \div b

\* two decimals by cutting the rest off
Format2Truncated(p) == IF p = NaN \/ p = Infinity THEN p ELSE p \div 100

\* {:6.2}: two decimals, result in 1/100 percent
Format2(p) == IF p = NaN \/ p = Infinity THEN p ELSE (p + 50) \div 100

\* total_time / measure_count, in nanoseconds (the caller excludes measure_count = 0)
AvgTime(total_time, measure_count) == (total_time * TickNanos) \div measure_count

\* {:9.4} of avg_time.as_secs_f32()*1000.0: milliseconds with four decimals, in 1/10000 ms
Format4Ms(nanos) == (nanos + 50) \div 100

RECURSIVE KeyOrder(_, _)
\* the ids of set S as BTreeMap::iter() yields them: ascending key
KeyOrder(d, S) ==
    IF S = {} THEN <<>>
    ELSE LET m == CHOOSE i \in S : \A j \in S : NameRank(d.nodes[i].name) <= NameRank(d.nodes[j].name)
         IN <<m>> \o KeyOrder(d, S \ {m})

relative_parent_percents(d, i) ==
    Percents(d.nodes[i].total_time, d.nodes[d.nodes[i].parent].total_time)

RECURSIVE InsertDesc(_, _, _)
\* stable insertion of id x into a list sorted descending by relative_parent_percents
InsertDesc(d, list, x) ==
    IF list = <<>> THEN <<x>>
    ELSE IF relative_parent_percents(d, list[Len(list)]) >= relative_parent_percents(d, x)
         THEN Append(list, x)
         ELSE Append(InsertDesc(d, SubSeq(list, 1, Len(list) - 1), x), list[Len(list)])

\* the sort left out: the children stay in map order
KeptOrder(d, list) == list

RECURSIVE SortDesc(_, _)
\* children.sort_by(|a, b| b.relative_parent_percents.partial_cmp(&a...).unwrap()): stable
SortDesc(d, list) ==
    IF list = <<>> THEN <<>>
    ELSE InsertDesc(d, SortDesc(d, SubSeq(list, 1, Len(list) - 1)), list[Len(list)])

ReportRow(d, i, depth) ==
    [padding_left |-> depth * 25,
     name |-> CleanParts(d.nodes[i].name),
     global_percents |-> Format2(Percents(d.nodes[i].total_time, d.nodes[Root].total_time)),
     relative_parent_percents |->
        Format2(IF i = Root THEN Percents(d.nodes[i].total_time, d.nodes[i].total_time)
                ELSE relative_parent_percents(d, i)),
     \* a count of 2^31 or more exceeds every total_time held here: the quotient is 0
     avg_time |-> Format4Ms(IF d.nodes[i].measure_count_bit31 = 1 THEN 0
                            ELSE AvgTime(d.nodes[i].total_time, d.nodes[i].measure_count))]

\* the children of node i as build_string visits them: collected from the map, then sorted
SortedChildren(d, i) == SortDesc(d, KeyOrder(d, Children(d, i)))

RECURSIVE build_string_recurse(_, _, _)
RECURSIVE build_string_children(_, _, _)
\* build_string that passes its own depth on to the children
build_string_same_depth(d, i, depth) ==
    <<ReportRow(d, i, depth)>> \o build_string_children(d, SortedChildren(d, i), depth)

\* the row of node i, then the rows of its children, sorted
build_string_recurse(d, i, depth) ==
    <<ReportRow(d, i, depth)>> \o build_string_children(d, SortedChildren(d, i), depth + 1)

build_string_children(d, list, depth) ==
    IF list = <<>> THEN <<>>
    ELSE build_string_recurse(d, list[1], depth) \o build_string_children(d, Tail(list), depth)

\* Duration / 0 panics in build_report_recurse
DividesByZero(d) ==
    \E i \in TreeNodes(d) : d.nodes[i].measure_count = 0 /\ d.nodes[i].measure_count_bit31 = 0

\* partial_cmp(..).unwrap() panics when the sort compares a NaN
SortPanics(d) ==
    \E p \in TreeNodes(d) :
        /\ Cardinality(Children(d, p)) >= 2
        /\ \E c \in Children(d, p) : relative_parent_percents(d, c) = NaN

NoReport == [status |-> "none", rows |-> <<>>]

\* main_block.build_report().build_string(&mut report)
build_report_string(d) ==
    IF DividesByZero(d) \/ SortPanics(d) THEN [status |-> "panic", rows |-> <<>>]
    ELSE [status |-> "ok", rows |-> build_string_recurse(d, Root, 0)]

\* ---------------------------------------------------------------- reading the event stream
\* The log reads the received events on their own, by thread and block name:
\*   open[T]    the names of the blocks T has begun and not ended, outermost first
\*   pairs      for each chain of names, the begin/end pairs completed at that nesting
\*   threads    the threads whose block events were received
\*   main_ended an EndMain was received;  late_end: an EndBlock was received after it
\*   reset      a ResetStats was received;  ended_since: an EndMain was received after it
NoLog ==
    [open |-> [T \in Threads |-> <<>>], pairs |-> <<>>, threads |-> {},
     main_ended |-> FALSE, late_end |-> FALSE, reset |-> FALSE, ended_since |-> FALSE]

Counted(f, k) == IF k \in DOMAIN f THEN [f EXCEPT ![k] = @ + 1] ELSE f @@ (k :> 1)

PairsOf(lg, path) == IF path \in DOMAIN lg.pairs THEN lg.pairs[path] ELSE 0

Note(lg, ev) ==
    CASE ev.type = "BeginBlock" ->
            [lg EXCEPT !.open[ev.thread_id] = Append(@, ev.name),
                       !.threads = @ \cup {ev.thread_id}]
      [] ev.type = "EndBlock" ->
            LET o == lg.open[ev.thread_id]
            IN [lg EXCEPT !.open[ev.thread_id] = IF o = <<>> THEN o ELSE SubSeq(o, 1, Len(o) - 1),
                          !.pairs = IF o = <<>> THEN @ ELSE Counted(@, o),
                          !.threads = @ \cup {ev.thread_id},
                          !.late_end = @ \/ lg.main_ended]
      [] ev.type = "EndMain" -> [lg EXCEPT !.main_ended = TRUE, !.ended_since = lg.reset]
      [] ev.type = "ResetStats" -> [lg EXCEPT !.reset = TRUE, !.ended_since = FALSE]
      [] OTHER -> lg

\* ---------------------------------------------------------------- the program
NoCall == [done |-> FALSE, quiet |-> FALSE, before |-> ProfilerData_new, log |-> NoLog,
           batch |-> <<>>]

\* the program at its start, with session d and the events q in the channel
StartWith(d, q) ==
    /\ now = 0
    /\ main_start_time = 0
    /\ main_state = "init"
    /\ queue = q
    /\ guards = [t \in Threads |-> <<>>]
    /\ calls = 0
    /\ created = 0
    /\ resets = 0
    /\ data = d
    /\ report = NoReport
    /\ log = NoLog
    /\ fresh = d
    /\ call = [NoCall EXCEPT !.before = d]
    /\ sent_since = FALSE
    /\ strict = TRUE

Init == StartWith(ProfilerData_new, <<>>)

\* a panic in the consumer ends the run; so does writing the report, the program's last step
Running == ~data.panicked /\ report.status = "none"

\* Instant::now(): the clock has not gone back since it was last read
Instants == now..MaxTime

\* events_sender.send(ev) by the instrumented program
Send(ev) ==
    /\ queue' = Append(queue, ev)
    /\ sent_since' = TRUE

RemoveAt(seq, i) == SubSeq(seq, 1, i - 1) \o SubSeq(seq, i + 1, Len(seq))

\* the first thing the program does
begin_main ==
    /\ Running
    /\ main_state = "init"
    /\ main_start_time' = now
    /\ main_state' = "begun"
    /\ Send(BeginMain)
    /\ UNCHANGED <<now, guards, calls, created, resets, data, report, log, fresh, call, strict>>

end_main(at) ==
    /\ Running
    /\ main_state = "begun"
    /\ main_state' = "ended"
    /\ now' = at
    /\ Send(EndMain(at - main_start_time))
    /\ UNCHANGED <<main_start_time, guards, calls, created, resets, data, report, log,
                   fresh, call, strict>>

reset_stats ==
    /\ Running
    /\ main_state = "begun"
    /\ resets < MaxResets
    /\ resets' = resets + 1
    /\ Send(ResetStats)
    /\ UNCHANGED <<now, main_start_time, main_state, guards, calls, created, data, report,
                   log, fresh, call, strict>>

\* ProfilerBlockGuard::new(name) on thread t, at instant `at`
ProfilerBlockGuard_new(t, name, at) ==
    /\ Running
    /\ main_state = "begun"
    /\ created < MaxGuards
    /\ created' = created + 1
    /\ now' = at
    /\ guards' = [guards EXCEPT ![t] = Append(@, [name |-> name, start_time |-> at])]
    /\ Send(BeginBlock(t, name))
    /\ UNCHANGED <<main_start_time, main_state, calls, resets, data, report, log, fresh,
                   call, strict>>

\* Drop for ProfilerBlockGuard: at instant `at`, thread t drops the i-th live guard
\* created by thread u
ProfilerBlockGuard_drop(t, u, i, at) ==
    /\ Running
    /\ i \in 1..Len(guards[u])
    /\ now' = at
    /\ strict' = (strict /\ t = u /\ i = Len(guards[u]))
    /\ guards' = [guards EXCEPT ![u] = RemoveAt(@, i)]
    /\ Send(EndBlock(t, at - guards[u][i].start_time))
    /\ UNCHANGED <<main_start_time, main_state, calls, created, resets, data, report,
                   log, fresh, call>>

RECURSIVE Drain(_, _)
\* `for event in self.events_receiver.try_iter()` over the events q: the session at the
\* end, the events applied, the events not received (those after a panic)
Drain(d, q) ==
    IF q = <<>> THEN [data |-> d, applied |-> <<>>, rest |-> <<>>]
    ELSE LET nd == Apply(d, Head(q))
         IN IF nd.panicked
            THEN [data |-> nd, applied |-> <<Head(q)>>, rest |-> Tail(q)]
            ELSE LET r == Drain(nd, Tail(q))
                 IN [data |-> r.data, applied |-> <<Head(q)>> \o r.applied, rest |-> r.rest]

RECURSIVE NoteAll(_, _)
NoteAll(lg, evs) == IF evs = <<>> THEN lg ELSE NoteAll(Note(lg, Head(evs)), Tail(evs))

\* the session a fresh run has: constructed anew, with the root's name as it is
FreshSession(d) ==
    [ProfilerData_new EXCEPT !.nodes[Root].name = d.nodes[Root].name,
                             !.overflow_checks = d.overflow_checks]

RECURSIVE FreshAfter(_, _)
FreshAfter(f, evs) ==
    IF evs = <<>> THEN f
    ELSE FreshAfter(IF Head(evs).type = "ResetStats" THEN FreshSession(f)
                    ELSE Apply(f, Head(evs)), Tail(evs))

\* Profiler::process_events(&mut data) on thread t, entered at instant `from` and left at
\* instant `to`: profile_block!() sends the call's BeginBlock, the loop drains the
\* channel, and the guard's drop at return (or while unwinding from a panic) sends the
\* call's EndBlock
process_events_body(begin, end, to) ==
    /\ now' = to
    /\ calls' = calls + 1
    /\ sent_since' = FALSE
    /\ LET r == Drain(data, Append(queue, begin))
       IN /\ data' = r.data
          /\ queue' = Append(r.rest, end)
          /\ log' = NoteAll(log, r.applied)
          /\ fresh' = FreshAfter(fresh, r.applied)
          /\ call' = [done |-> TRUE, quiet |-> (call.done /\ ~sent_since), before |-> data,
                      log |-> log, batch |-> r.applied]
    /\ UNCHANGED <<main_start_time, main_state, guards, created, resets, report, strict>>

process_events(t, from, to) ==
    /\ Running
    /\ main_state # "init"
    /\ calls < MaxCalls
    /\ from <= to
    /\ process_events_body(BeginBlock(t, PEName), EndBlock(t, to - from), to)

\* ProfilerData::save_to_file, at the end of profiling: after end_main and a
\* process_events call that received everything sent
save_to_file ==
    /\ Running
    /\ main_state = "ended"
    /\ call.done
    /\ ~sent_since
    /\ report' = build_report_string(data)
    /\ UNCHANGED <<now, main_start_time, main_state, queue, guards, calls, created,
                   resets, data, log, fresh, call, sent_since, strict>>

Next ==
    \/ begin_main
    \/ \E at \in Instants : end_main(at)
    \/ \E t \in Threads, name \in Names, at \in Instants : ProfilerBlockGuard_new(t, name, at)
    \/ \E t \in Threads, u \in Threads, at \in Instants :
            \E i \in 1..Len(guards[u]) : ProfilerBlockGuard_drop(t, u, i, at)
    \/ \E from \in Instants, to \in Instants : process_events(MainThread, from, to)
    \/ save_to_file

Spec == Init /\ [][Next]_vars

NextReset == Next \/ reset_stats

SpecReset == Init /\ [][NextReset]_vars

\* ---------------------------------------------------------------- after the report
\* PROFILER is a static that owns both ends of the channel: nothing closes the channel or
\* drops the receiver, and the session outlives save_to_file.  The program goes on
\* creating and dropping guards and calling process_events once the report is written.
Finished == ~data.panicked /\ report.status = "ok"

late_guard_new(t, name, at) ==
    /\ Finished
    /\ created < MaxGuards + MaxLate
    /\ created' = created + 1
    /\ now' = at
    /\ guards' = [guards EXCEPT ![t] = Append(@, [name |-> name, start_time |-> at])]
    /\ Send(Late(BeginBlock(t, name)))
    /\ UNCHANGED <<main_start_time, main_state, calls, resets, data, report, log, fresh,
                   call, strict>>

late_guard_drop(t, u, i, at) ==
    /\ Finished
    /\ i \in 1..Len(guards[u])
    /\ now' = at
    /\ strict' = (strict /\ t = u /\ i = Len(guards[u]))
    /\ guards' = [guards EXCEPT ![u] = RemoveAt(@, i)]
    /\ Send(Late(EndBlock(t, at - guards[u][i].start_time)))
    /\ UNCHANGED <<main_start_time, main_state, calls, created, resets, data, report,
                   log, fresh, call>>

late_process_events(t, from, to) ==
    /\ Finished
    /\ calls < MaxCalls + MaxLate
    /\ from <= to
    /\ process_events_body(Late(BeginBlock(t, PEName)), Late(EndBlock(t, to - from)), to)

NextAfter ==
    \/ Next
    \/ \E t \in Threads, name \in Names, at \in Instants : late_guard_new(t, name, at)
    \/ \E t \in Threads, u \in Threads, at \in Instants :
            \E i \in 1..Len(guards[u]) : late_guard_drop(t, u, i, at)
    \/ \E from \in Instants, to \in Instants : late_process_events(MainThread, from, to)

SpecAfter == Init /\ [][NextAfter]_vars

\* ---------------------------------------------------------------- the aggregator on its own
\* One process_events call followed event by event: the channel holds a given sequence
\* of events, the loop applies them one at a time, and the report is built at the end.
BlockAlphabet ==
    {BeginBlock(MainThread, NameOuter), BeginBlock(MainThread, NameInner),
     EndBlock(MainThread, 10), EndBlock(MainThread, 15)}

\* the sequences of at most n events over the alphabet A
SeqsUpTo(A, n) == UNION {[1..k -> A] : k \in 0..n}

\* block events alone, or block events between BeginMain and EndMain
Scripts ==
    LET bodies == SeqsUpTo(BlockAlphabet, MaxScript)
    IN bodies \cup {<<BeginMain>> \o b \o <<EndMain(t)>> : b \in bodies, t \in {15, 40}}

\* one iteration of the loop over events_receiver.try_iter()
apply_next ==
    /\ Running
    /\ queue # <<>>
    /\ data' = Apply(data, Head(queue))
    /\ queue' = Tail(queue)
    /\ log' = Note(log, Head(queue))
    /\ fresh' = FreshAfter(fresh, <<Head(queue)>>)
    /\ call' = [call EXCEPT !.done = TRUE, !.batch = Append(@, Head(queue))]
    /\ UNCHANGED <<now, main_start_time, main_state, guards, calls, created, resets,
                   report, sent_since, strict>>

\* the report of the session once the loop has ended
report_session ==
    /\ Running
    /\ queue = <<>>
    /\ report' = build_report_string(data)
    /\ UNCHANGED <<now, main_start_time, main_state, queue, guards, calls, created,
                   resets, data, log, fresh, call, sent_since, strict>>

NextEvents == apply_next \/ report_session

InitEvents == \E q \in Scripts : StartWith(ProfilerData_new, q)

SpecEvents == InitEvents /\ [][NextEvents]_vars

\* the same with the block events of two threads interleaved in the channel
ThreadAlphabet ==
    {BeginBlock(T, NameOuter) : T \in Threads} \cup {EndBlock(T, 10) : T \in Threads}

InitThreads == \E q \in SeqsUpTo(ThreadAlphabet, MaxScript) : StartWith(ProfilerData_new, q)

SpecThreads == InitThreads /\ [][NextEvents]_vars

\* ---------------------------------------------------------------- the last call, event by event
RECURSIVE Replay(_, _, _)
\* the events evs applied one by one from session d: for each, the session before and
\* after it and what the log said before it
Replay(d, lg, evs) ==
    IF evs = <<>> THEN <<>>
    ELSE LET nd == Apply(d, Head(evs))
         IN <<[ev |-> Head(evs), pre |-> d, post |-> nd, log |-> lg]>>
                \o Replay(nd, Note(lg, Head(evs)), Tail(evs))

LastSteps == Replay(call.before, call.log, call.batch)

Steps == 1..Len(call.batch)

\* the blocks the event's thread had open, by its own events alone, before the step
OpenBefore(st) == st.log.open[st.ev.thread_id]

NodeAt(d, path) == {i \in 1..Len(d.nodes) : i # Root /\ InTree(d, i) /\ PathOf(d, i) = path}

SingleThread == log.threads \subseteq {MainThread}

\* ---------------------------------------------------------------- claims

\* C1: processing EndBlock(T, d) adds d to total_time and 1 to measure_count of exactly
\* the node of the block T itself opened last and has not closed (found from T's own
\* events alone, however other threads' events are interleaved), and changes no other node.
C1_EndBlockChargesOwnFrame ==
    LET steps == LastSteps IN
    \A k \in Steps :
        LET st == steps[k]
            e == st.ev
        IN (e.type = "EndBlock" /\ ~st.post.panicked) =>
            \E n \in NodeAt(st.pre, OpenBefore(st)) :
                st.post.nodes = [st.pre.nodes EXCEPT ![n].total_time = @ + e.time,
                                                     ![n].measure_count = @ + 1]

\* an EndBlock of one thread was applied while another thread had a different frame open
C1_Witness ==
    LET steps == LastSteps IN
    \E k \in Steps :
        LET st == steps[k]
            e == st.ev
        IN /\ e.type = "EndBlock"
           /\ ~st.post.panicked
           /\ e.time > 0
           /\ \E U \in Threads :
                /\ U # e.thread_id
                /\ current_block_on_thread(st.pre, U) # None
                /\ current_block_on_thread(st.pre, U) # current_block_on_thread(st.pre, e.thread_id)

\* C2: every node has at most one child per name; a BeginBlock(T, name) whose position
\* (T's open blocks, then name) already has a node pushes that node and creates none.
C2_OneChildPerName ==
    /\ \A i, j \in 1..Len(data.nodes) :
        (data.nodes[i].parent # 0 /\ data.nodes[i].parent = data.nodes[j].parent
            /\ data.nodes[i].name = data.nodes[j].name) => i = j
    /\ LET steps == LastSteps
       IN \A k \in Steps :
            LET st == steps[k]
                e == st.ev
                there == NodeAt(st.pre, Append(OpenBefore(st), e.name))
            IN (e.type = "BeginBlock" /\ there # {}) =>
                /\ Len(st.post.nodes) = Len(st.pre.nodes)
                /\ current_block_on_thread(st.post, e.thread_id) \in there

\* a BeginBlock found the node of its position already there, with a completed pair on it
C2_Witness ==
    LET steps == LastSteps IN
    \E k \in Steps :
        LET st == steps[k]
            e == st.ev
        IN /\ e.type = "BeginBlock"
           /\ \E n \in NodeAt(st.pre, Append(OpenBefore(st), e.name)) :
                st.pre.nodes[n].measure_count >= 1

Descendants(d) == TreeNodes(d) \ {Root}

\* C4 as stated: after a drain, root.total_time >= the total_time of every descendant.
C4_RootAtLeastDescendants ==
    (call.done /\ ~data.panicked) =>
        \A n \in Descendants(data) : data.nodes[Root].total_time >= data.nodes[n].total_time

\* the premises under which the root's time bounds its descendants'
OneThreadInsideMain ==
    log.main_ended /\ SingleThread /\ strict /\ ~log.late_end /\ ~data.panicked

\* C4 amended: once EndMain has been processed, root.total_time >= every descendant's
\* total_time, provided all block events come from one thread, every guard is created
\* after begin_main and dropped by its creating thread innermost first, and no EndBlock
\* is processed after EndMain.
C4_RootAtLeastDescendantsOfOneThread ==
    OneThreadInsideMain =>
        \A n \in Descendants(data) : data.nodes[Root].total_time >= data.nodes[n].total_time

C4_Witness ==
    /\ OneThreadInsideMain
    /\ \E n \in Descendants(data) : data.nodes[n].total_time >= 1 /\ Depth(data, n) = 1
    /\ \E n \in Descendants(data) : Depth(data, n) = 2

\* C5 as stated: a process_events call made when the program has sent nothing since the
\* previous call returned leaves the nodes, their counters and every stack unchanged.
C5_QuietCallChangesNothing ==
    (call.done /\ call.quiet) =>
        /\ data.nodes = call.before.nodes
        /\ data.blocks_stack = call.before.blocks_stack

\* C6 as stated: the event queue is empty when process_events returns.
C6_QueueEmptyAtReturn ==
    (call.done /\ ~sent_since /\ ~data.panicked) => queue = <<>>

\* C7 as stated: when the report is built, every node of the tree, root included, has
\* measure_count >= 1.
C7_NoZeroCountAtReport ==
    report.status # "none" => \A i \in TreeNodes(data) : data.nodes[i].measure_count >= 1

\* C8: an EndBlock(T, d) processed when T has no open block is fatal: processing stops
\* there, and the event changes no node, no counter and no stack.
C8_EndBlockWithoutFrameIsFatal ==
    LET steps == LastSteps IN
    \A k \in Steps :
        LET st == steps[k]
            e == st.ev
        IN (e.type = "EndBlock" /\ OpenBefore(st) = <<>>) =>
            /\ st.post.nodes = st.pre.nodes
            /\ st.post.blocks_stack = st.pre.blocks_stack
            /\ st.post.panicked
            /\ k = Len(call.batch)
            /\ data = st.post

\* an EndBlock arrived for a thread with no open block while another thread had one
C8_Witness ==
    LET steps == LastSteps IN
    \E k \in Steps :
        LET st == steps[k]
            e == st.ev
        IN /\ e.type = "EndBlock"
           /\ OpenBefore(st) = <<>>
           /\ \E U \in Threads : current_block_on_thread(st.pre, U) # None
           /\ Len(st.pre.nodes) >= 2

\* what the run shows for its session: the report, or the panic of process_events
RunReport(d) == IF d.panicked THEN [status |-> "panic", rows |-> <<>>] ELSE build_report_string(d)

\* C9 as stated: a session that processed earlier events, then ResetStats, then events S
\* ending the run reports exactly what a fresh session that processes S reports.
C9_ResetThenReplayReportsAsFresh ==
    (log.reset /\ log.ended_since) => RunReport(data) = RunReport(fresh)

\* C10 as stated: the root row of every report has global_percent = parent_percent = 100.00
C10_RootRowIs100 ==
    report.status = "ok" =>
        /\ report.rows[1].global_percents = 10000
        /\ report.rows[1].relative_parent_percents = 10000

\* ---------------------------------------------------------------- reading the report
\* The rows are read on their own: a row's parent is the nearest earlier row indented
\* one step less, and a row stands for the child of its parent's node that has its name.
IndentStep == 25

RowParent(rows, k) ==
    LET c == {j \in 1..(k - 1) : rows[j].padding_left = rows[k].padding_left - IndentStep}
    IN IF c = {} THEN 0 ELSE CHOOSE j \in c : \A i \in c : i <= j

RECURSIVE RowNode(_, _, _)
\* the node row k stands for (None if the rows do not say)
RowNode(d, rows, k) ==
    IF k = 1 THEN Root
    ELSE LET j == RowParent(rows, k)
         IN IF j = 0 THEN None
            ELSE LET p == RowNode(d, rows, j)
                 IN IF p = None THEN None
                    ELSE LET c == {i \in Children(d, p) :
                                        CleanParts(d.nodes[i].name) = rows[k].name}
                         IN IF c = {} THEN None ELSE CHOOSE i \in c : TRUE

\* the nodes whose rows have the row of node p as parent, in the order of their rows
RowsBelow(d, rows, p) ==
    LET ks == {k \in 2..Len(rows) : RowNode(d, rows, RowParent(rows, k)) = p
                                        /\ RowParent(rows, k) # 0}
        RECURSIVE InOrder(_)
        InOrder(S) == IF S = {} THEN <<>>
                      ELSE LET k == CHOOSE x \in S : \A y \in S : x <= y
                           IN <<RowNode(d, rows, k)>> \o InOrder(S \ {k})
    IN InOrder(ks)

RECURSIVE Under(_, _, _)
\* node i is a descendant of node n
Under(d, i, n) ==
    IF d.nodes[i].parent = 0 THEN FALSE
    ELSE d.nodes[i].parent = n \/ Under(d, d.nodes[i].parent, n)

\* C11 as stated: the children of every node are emitted in descending order of
\* parent_percent, those with equal parent_percent in the order their nodes were created.
C11_ChildrenByPercentThenDiscovery ==
    report.status = "ok" =>
        \A p \in TreeNodes(data) :
            LET l == RowsBelow(data, report.rows, p)
            IN \A j, k \in 1..Len(l) : j < k =>
                /\ relative_parent_percents(data, l[j]) >= relative_parent_percents(data, l[k])
                /\ relative_parent_percents(data, l[j]) = relative_parent_percents(data, l[k])
                        => l[j] < l[k]

\* C11 amended: the children of every node are emitted in descending order of
\* parent_percent, those with equal parent_percent in ascending order of their names
\* (the key order of the children map).
C11_ChildrenByPercentThenName ==
    report.status = "ok" =>
        \A p \in TreeNodes(data) :
            LET l == RowsBelow(data, report.rows, p)
            IN /\ Len(l) = Cardinality(Children(data, p))
               /\ \A j, k \in 1..Len(l) : j < k =>
                    /\ relative_parent_percents(data, l[j]) >= relative_parent_percents(data, l[k])
                    /\ relative_parent_percents(data, l[j]) = relative_parent_percents(data, l[k])
                            => NameRank(data.nodes[l[j]].name) < NameRank(data.nodes[l[k]].name)

\* a report with two siblings of equal, finite parent_percent, the one created first
\* having the later name
C11_Witness ==
    /\ report.status = "ok"
    /\ \E i, j \in Descendants(data) :
        /\ i < j
        /\ data.nodes[i].parent = data.nodes[j].parent
        /\ relative_parent_percents(data, i) = relative_parent_percents(data, j)
        /\ relative_parent_percents(data, i) > 0
        /\ relative_parent_percents(data, i) < Infinity
        /\ NameRank(data.nodes[i].name) > NameRank(data.nodes[j].name)

\* the scenario: outer encloses inner, inner lasts 10 ms and outer 15 ms
Scenario ==
    <<BeginBlock(MainThread, NameOuter), BeginBlock(MainThread, NameInner),
      EndBlock(MainThread, 10), EndBlock(MainThread, 15)>>

\* the report has outer with 100.00 %, 100.00 % and 15.0000 ms, and right below it, one
\* level deeper, inner with 66.67 %, 66.67 % and 10.0000 ms
ScenarioReported ==
    /\ report.status = "ok"
    /\ \E k \in 1..(Len(report.rows) - 1) :
        LET outer == report.rows[k]
            inner == report.rows[k + 1]
        IN /\ outer.name = NameOuter
           /\ outer.global_percents = 10000
           /\ outer.relative_parent_percents = 10000
           /\ outer.avg_time = 150000
           /\ inner.name = NameInner
           /\ inner.padding_left = outer.padding_left + IndentStep
           /\ inner.global_percents = 6667
           /\ inner.relative_parent_percents = 6667
           /\ inner.avg_time = 100000

C15_RowsArePreOrder ==
    report.status = "ok" =>
        LET rows == report.rows
            node == [k \in 1..Len(rows) |-> RowNode(data, rows, k)]
        IN /\ Len(rows) = Cardinality(TreeNodes(data))
           /\ \A k \in 1..Len(rows) :
                /\ node[k] \in TreeNodes(data)
                /\ rows[k].padding_left = IndentStep * Depth(data, node[k])
                /\ \A j \in 1..Len(rows) : node[j] = node[k] => j = k
                /\ LET below == {i \in TreeNodes(data) : Under(data, i, node[k])}
                   IN {node[j] : j \in (k + 1)..(k + Cardinality(below))} = below

\* a report of a tree with a node two levels down that is followed by a sibling of its
\* parent
C15_Witness ==
    /\ report.status = "ok"
    /\ \E i, j \in Descendants(data) :
        /\ Depth(data, i) = 2
        /\ Depth(data, j) = 1
        /\ data.nodes[i].parent # j
        /\ \E k \in 1..(Len(report.rows) - 1) :
            /\ RowNode(data, report.rows, k) = i
            /\ RowNode(data, report.rows, k + 1) = j

\* the events of type `type` with thread id T among the events evs
OfThread(evs, type, T) ==
    Cardinality({k \in 1..Len(evs) : evs[k].type = type /\ evs[k].thread_id = T})

\* BeginBlocks minus EndBlocks among all the events thread T has sent: those received
\* (its open blocks, as long as every EndBlock received had one) and those in the channel
SentBalance(T) ==
    Len(log.open[T]) + OfThread(queue, "BeginBlock", T) - OfThread(queue, "EndBlock", T)

\* C13 as stated: every guard sends one BeginBlock when constructed and one EndBlock
\* when released, each with the id of the thread it runs on, so in the events sent by
\* any one thread every prefix has at least as many BeginBlocks as EndBlocks.
C13_BeginsCoverEndsPerThread ==
    \A T \in Threads : SentBalance(T) >= 0

\* C16: applying BeginBlock(T, name) makes T's stack one longer, applying EndBlock(T, d)
\* on a non-empty stack makes it one shorter, and either leaves every other thread's
\* stack as it was, also when the slot of T has to be created.
C16_StackStepsByOne ==
    LET steps == LastSteps IN
    \A k \in Steps :
        LET st == steps[k]
            e == st.ev
            T == e.thread_id
            others == \A U \in Threads \ {T} : StackOf(st.post, U) = StackOf(st.pre, U)
        IN /\ e.type = "BeginBlock" =>
                /\ Len(StackOf(st.post, T)) = Len(StackOf(st.pre, T)) + 1
                /\ others
           /\ (e.type = "EndBlock" /\ StackOf(st.pre, T) # <<>>) =>
                /\ Len(StackOf(st.post, T)) = Len(StackOf(st.pre, T)) - 1
                /\ others

\* a BeginBlock was applied for a thread whose slot did not exist yet while another
\* thread had a block open, and an EndBlock was applied in the same call
C16_Witness ==
    LET steps == LastSteps IN
    /\ \E k \in Steps :
        LET st == steps[k]
        IN /\ st.ev.type = "BeginBlock"
           /\ Len(st.pre.blocks_stack) < st.ev.thread_id + 1
           /\ \E U \in Threads \ {st.ev.thread_id} : StackOf(st.pre, U) # <<>>
    /\ \E k \in Steps :
        LET st == steps[k]
        IN st.ev.type = "EndBlock" /\ StackOf(st.pre, st.ev.thread_id) # <<>>

\* ---------------------------------------------------------------- a long run
\* values a block's measure_count has after 1, 2^31 - 1, 2^32 - 2 and 2^32 - 1 measurements
LongCounts ==
    {[bit31 |-> 0, low |-> 1], [bit31 |-> 0, low |-> LowMax],
     [bit31 |-> 1, low |-> LowMax - 1], [bit31 |-> 1, low |-> LowMax]}

\* the session after BeginMain and c completed blocks "outer" of the main thread, each
\* shorter than one tick, in a build with or without overflow checks
LongRun(c, checks) ==
    [nodes |-> <<[BlockStat_new(MainName, 0) EXCEPT !.name = MainName],
                 [BlockStat_new(NameOuter, Root) EXCEPT !.measure_count = c.low,
                                                        !.measure_count_bit31 = c.bit31]>>,
     blocks_stack |-> [v \in 1..(MainThread + 1) |-> <<>>],
     panicked |-> FALSE,
     overflow_checks |-> checks]

CounterAlphabet ==
    {BeginBlock(MainThread, NameOuter), EndBlock(MainThread, 0), EndBlock(MainThread, 10)}

InitCounter ==
    \E c \in LongCounts, checks \in BOOLEAN, q \in SeqsUpTo(CounterAlphabet, MaxScript) :
        StartWith(LongRun(c, checks), q)

SpecCounter == InitCounter /\ [][NextEvents]_vars

\* the u32 of node a is at most the u32 of node b
CountLeq(a, b) ==
    \/ a.measure_count_bit31 < b.measure_count_bit31
    \/ a.measure_count_bit31 = b.measure_count_bit31 /\ a.measure_count <= b.measure_count

\* C17: between BeginMain and EndMain, with no ResetStats, no step of the aggregator
\* decreases any node's total_time or measure_count, the step that increments a
\* measure_count at the maximum of its 32-bit counter included.
C17_CountersNeverDecrease ==
    LET steps == LastSteps IN
    \A k \in Steps :
        LET st == steps[k]
        IN st.ev.type \in {"BeginBlock", "EndBlock"} =>
            \A i \in 1..Len(st.pre.nodes) :
                /\ st.pre.nodes[i].total_time <= st.post.nodes[i].total_time
                /\ CountLeq(st.pre.nodes[i], st.post.nodes[i])

\* C14: a block guard created or released after the report was written does not fail the
\* thread that does it (no send in the program can fail), and its event is dropped:
\* no process_events call applies it to a session's tree.
C14_LateEventsNeverApplied ==
    \A k \in 1..Len(call.batch) : ~call.batch[k].late

\* ---------------------------------------------------------------- the aggregator and ResetStats
ResetAlphabet ==
    {BeginBlock(MainThread, NameOuter), BeginBlock(MainThread, NameInner),
     EndBlock(MainThread, 10), ResetStats}

InitEventsReset == \E q \in SeqsUpTo(ResetAlphabet, MaxScript) : StartWith(ProfilerData_new, q)

SpecEventsReset == InitEventsReset /\ [][NextEvents]_vars

\* C18: after ResetStats is processed root has no children and zero counters; the first
\* BeginBlock/EndBlock pair completed after it, if its name was used before the reset,
\* creates a new node, whose measure_count is then 1 and whose total_time is the pair's
\* duration.
C18_ResetThenSameNameStartsAnew ==
    LET steps == LastSteps IN
    /\ \A r \in Steps :
          steps[r].ev.type = "ResetStats" =>
            /\ Children(steps[r].post, Root) = {}
            /\ steps[r].post.nodes[Root].total_time = 0
            /\ steps[r].post.nodes[Root].measure_count = 0
            /\ steps[r].post.nodes[Root].measure_count_bit31 = 0
    /\ \A r \in Steps, k \in Steps :
          (/\ r < k - 1
           /\ steps[r].ev.type = "ResetStats"
           /\ steps[k - 1].ev.type = "BeginBlock"
           /\ steps[k].ev.type = "EndBlock"
           /\ steps[k].ev.thread_id = steps[k - 1].ev.thread_id
           /\ ~steps[k].post.panicked
           /\ \A j \in (r + 1)..(k - 2) : steps[j].ev.type = "BeginBlock"
           /\ \E j \in 1..(r - 1) :
                 steps[j].ev.type = "BeginBlock" /\ steps[j].ev.name = steps[k - 1].ev.name)
          => /\ Len(steps[k - 1].post.nodes) = Len(steps[k - 1].pre.nodes) + 1
             /\ LET n == steps[k].post.nodes[Len(steps[k - 1].post.nodes)]
                IN /\ n.measure_count = 1
                   /\ n.measure_count_bit31 = 0
                   /\ n.total_time = steps[k].ev.time

\* C20: every handle on every thread's stack refers to a node that is part of the tree
\* and is the node it was pushed for (the node of that thread's k-th open block, a child
\* of the frame below it), whatever events were processed since: BeginBlocks that
\* insert siblings or descendants, and ResetStats while the thread has open frames.
C20_StackHandlesAreLiveNodes ==
    ~data.panicked =>
        \A T \in Threads :
            LET s == StackOf(data, T)
            IN /\ Len(s) = Len(log.open[T])
               /\ \A k \in 1..Len(s) :
                     /\ InTree(data, s[k])
                     /\ data.nodes[s[k]].name = log.open[T][k]
                     /\ k > 1 => data.nodes[s[k]].parent = s[k - 1]

\* ---------------------------------------------------------------- qualified names
Segments == {"a", "A", "a_", "b"}

QualifiedNames == SeqsUpTo(Segments, MaxParts) \ {<<>>}

\* one block of the main thread with a given name, measured once inside BeginMain/EndMain
InitNames ==
    \E name \in QualifiedNames :
        StartWith(ProfilerData_new,
                  <<BeginMain, BeginBlock(MainThread, name), EndBlock(MainThread, 10),
                    EndMain(15)>>)

SpecNames == InitNames /\ [][NextEvents]_vars

\* C19: for every qualified name, three or more equal consecutive segments included,
\* the cleaned name in the report has no two consecutive segments that are equal after
\* lower-casing and removing underscores.
C19_NoEqualNeighboursAfterCleanup ==
    report.status = "ok" =>
        \A r \in 1..Len(report.rows) :
            LET name == report.rows[r].name
            IN \A k \in 1..(Len(name) - 1) : Simplified(name[k]) # Simplified(name[k + 1])

\* ---------------------------------------------------------------- stacks as chains
\* the stack s is a chain of the tree of d that starts below main_block
IsChain(d, s) ==
    \A k \in 1..Len(s) : d.nodes[s[k]].parent = (IF k = 1 THEN Root ELSE s[k - 1])

\* C21: after every prefix of the events, each thread's stack is a chain in the tree
\* (its bottom entry a child of root, every other entry a child of the entry below it),
\* and the node an EndBlock charges is at the depth of the thread's stack length before
\* the pop.
C21_StacksAreChains ==
    LET steps == LastSteps IN
    /\ \A T \in Threads : IsChain(data, StackOf(data, T))
    /\ \A k \in Steps :
          LET st == steps[k]
              s == StackOf(st.pre, st.ev.thread_id)
          IN /\ \A T \in Threads : IsChain(st.post, StackOf(st.post, T))
             /\ (st.ev.type = "EndBlock" /\ s # <<>>) =>
                    /\ Depth(st.pre, s[Len(s)]) = Len(s)
                    /\ st.post.nodes[s[Len(s)]] # st.pre.nodes[s[Len(s)]]

\* both threads have blocks open, one of them three deep, and an EndBlock was applied to
\* a stack two deep
C21_Witness ==
    LET steps == LastSteps IN
    /\ \E T \in Threads, U \in Threads :
          T # U /\ Len(StackOf(data, T)) >= 3 /\ Len(StackOf(data, U)) >= 1
    /\ \E k \in Steps :
          /\ steps[k].ev.type = "EndBlock"
          /\ Len(StackOf(steps[k].pre, steps[k].ev.thread_id)) = 2

\* ---------------------------------------------------------------- interleavings and batches
\* Two threads' block events reach the channel in some interleaving, and successive
\* process_events calls each receive the next part of the stream.
BatchAlphabet ==
    {BeginBlock(1, NameOuter), EndBlock(1, 10), BeginBlock(2, NameOuter), EndBlock(2, 15)}

InitBatches == \E q \in SeqsUpTo(BatchAlphabet, MaxBatched) : StartWith(ProfilerData_new, q)

\* a call that finds only the first n events of the stream in the channel, stacks kept
\* in the call instead of in the session
BatchWithOwnStacks(d, q, n) ==
    Drain([d EXCEPT !.blocks_stack = <<>>], SubSeq(q, 1, n))

\* the loop over try_iter() of a call that finds the first n events of q in the channel
Batch(d, q, n) == Drain(d, SubSeq(q, 1, n))

drain_batch(n) ==
    /\ Running
    /\ n \in 1..Len(queue)
    /\ calls' = calls + 1
    /\ LET r == Batch(data, queue, n)
       IN /\ data' = r.data
          /\ queue' = r.rest \o SubSeq(queue, n + 1, Len(queue))
          /\ log' = NoteAll(log, r.applied)
          /\ fresh' = FreshAfter(fresh, r.applied)
          /\ call' = [call EXCEPT !.done = TRUE, !.batch = @ \o r.applied]
    /\ UNCHANGED <<now, main_start_time, main_state, guards, created, resets, report,
                   sent_since, strict>>

NextBatches == (\E n \in 1..MaxBatched : drain_batch(n)) \/ report_session

SpecBatches == InitBatches /\ [][NextBatches]_vars

\* the whole stream: the events applied so far, then those still in the channel
Stream == call.batch \o queue

RECURSIVE OwnEvents(_, _)
\* thread T's own events in the stream, in their order
OwnEvents(evs, T) ==
    IF evs = <<>> THEN <<>>
    ELSE IF Head(evs).thread_id = T THEN <<Head(evs)>> \o OwnEvents(Tail(evs), T)
    ELSE OwnEvents(Tail(evs), T)

\* no prefix of the events has more EndBlocks than BeginBlocks
WellNested(evs) ==
    \A k \in 1..Len(evs) :
        OfThread(SubSeq(evs, 1, k), "EndBlock", evs[k].thread_id)
            <= OfThread(SubSeq(evs, 1, k), "BeginBlock", evs[k].thread_id)

\* the tree of session d: each node's position (the names from the root down to it)
\* with its counters
TreeOf(d) ==
    {[path |-> PathOf(d, i), total_time |-> d.nodes[i].total_time,
      measure_count |-> d.nodes[i].measure_count,
      measure_count_bit31 |-> d.nodes[i].measure_count_bit31] : i \in TreeNodes(d)}

\* the same threads' events with thread 1's all before thread 2's, received in one call
OneByOne == OwnEvents(Stream, 1) \o OwnEvents(Stream, 2)

====
